---- MODULE Spec2Model ----
(***************************************************************************)
(* Model of linkedin_post_collector.py: the text extractor, the post       *)
(* search, the relevance scorer and the Streamlit pipeline that sequences  *)
(* them (validate, scrape example, search, scrape+score each candidate,    *)
(* filter, display).                                                       *)
(*                                                                         *)
(* Three specifications:                                                   *)
(*   Spec        the pipeline run (lines 145-234)                          *)
(*   SpecScrape  scrape_post_text applied to every fetch outcome           *)
(*   SpecScorer  ai_relevance_score applied to every model response        *)
(***************************************************************************)
EXTENDS Integers, Sequences, FiniteSets, TLC

VARIABLES
    pc,              \* position of the script
    serpapi_key,     \* sidebar input (line 115)
    gemini_key,      \* sidebar input (line 116)
    ai_threshold,    \* sidebar slider (line 120)
    example_url,     \* main input (line 136)
    target_phrase,   \* main input (line 137)
    progress,        \* values given to the progress bar, in call order
    example_text,    \* line 154
    raw_posts,       \* line 158; the post dicts, mutated in place by the loop
    scored_posts,    \* line 162; references (indices) into raw_posts
    qualified_posts, \* line 188; references into raw_posts
    high_intent,     \* line 189; references into raw_posts
    ui,              \* what the page shows
    calls,           \* external calls made so far, in order
    search_outcome,  \* kind of answer the search provider gave
    crash,           \* where an uncaught exception ended the script ("" = none)
    fetch_in,        \* SpecScrape: the fetch outcome handed to scrape_post_text
    scrape_out,      \* SpecScrape: what scrape_post_text returned
    model_in,        \* SpecScorer: the model response
    score_out        \* SpecScorer: what ai_relevance_score returned

vars == << pc, serpapi_key, gemini_key, ai_threshold, example_url,
           target_phrase, progress, example_text, raw_posts, scored_posts,
           qualified_posts, high_intent, ui, calls, search_outcome, crash,
           fetch_in, scrape_out, model_in, score_out >>

pipeline_vars == << serpapi_key, gemini_key, ai_threshold, example_url,
                    target_phrase, progress, example_text, raw_posts,
                    scored_posts, qualified_posts, high_intent, ui, calls,
                    search_outcome, crash >>

(***************************************************************************)
(* Bounds                                                                  *)
(***************************************************************************)
MaxHits == 3     \* most organic results one search answer carries

(***************************************************************************)
(* Python values.  A str is abstracted to (identity, length); a number     *)
(* carries its type: a float [t |-> "float", n |-> k] stands for k + 0.5.  *)
(***************************************************************************)
Str(id, len) == [id |-> id, len |-> len]
EmptyStr == Str("", 0)

Min(a, b) == IF a <= b THEN a ELSE b

\* s[:n]
Slice(s, n) == IF s.len <= n THEN s ELSE Str(s.id, n)

\* a + " " + b   (line 166)
Concat(a, b) == Str("title snippet", a.len + 1 + b.len)

PyInt(k)   == [t |-> "int",   n |-> k, s |-> ""]
PyFloat(k) == [t |-> "float", n |-> k, s |-> ""]
PyStr(x)   == [t |-> "str",   n |-> 0, s |-> x]
PyNone     == [t |-> "none",  n |-> 0, s |-> ""]
NoKey      == [t |-> "nokey", n |-> 0, s |-> ""]   \* dict has no such key yet

IsNumber(v) == v.t \in {"int", "float"}
\* twice the numeric value, so that k + 0.5 stays an integer
Twice(v) == IF v.t = "float" THEN 2 * v.n + 1 ELSE 2 * v.n

(***************************************************************************)
(* Text Extractor: scrape_post_text (lines 24-39)                          *)
(***************************************************************************)
SCRAPE_MAX == 3000

BodyLens == {0, 1, 10, 2999, 3000, 3001, 6000}

\* og:description of the parsed page: no such meta tag, a tag without a
\* content attribute, or a tag with content of some length
OgTags == { [tag |-> FALSE, content |-> FALSE, len |-> 0],
            [tag |-> TRUE,  content |-> FALSE, len |-> 0],
            [tag |-> TRUE,  content |-> TRUE,  len |-> 0],
            [tag |-> TRUE,  content |-> TRUE,  len |-> 7],
            [tag |-> TRUE,  content |-> TRUE,  len |-> 4000] }

NoOg == [tag |-> FALSE, content |-> FALSE, len |-> 0]

\* What requests.get + BeautifulSoup can do with a URL: raise (connection
\* error, timeout, parser error) or give a response.  A non-HTML body has no
\* tags, so no og:description, and all of it is text.
FetchOutcomes ==
    { [kind |-> k, status |-> 0, og |-> NoOg, body |-> 0] :
          k \in {"network_error", "timeout", "parse_error"} }
    \cup { [kind |-> "html", status |-> st, og |-> og, body |-> b] :
          st \in {200, 404}, og \in OgTags, b \in BodyLens }
    \cup { [kind |-> "non_html", status |-> st, og |-> NoOg, body |-> b] :
          st \in {200, 404}, b \in BodyLens }

FetchRaises(f) == f.kind \in {"network_error", "timeout", "parse_error"}

\* meta.get("content"): None when the attribute is missing
MetaContent(og) == IF og.content /\ og.len > 0 THEN Str("og", og.len) ELSE EmptyStr

\* soup.get_text(separator=" ", strip=True)
GetText(f) == IF f.body = 0 THEN EmptyStr ELSE Str("body", f.body)

scrape_post_text(f) ==
    IF FetchRaises(f) THEN EmptyStr                                  \* except: return ""
    ELSE IF f.og.tag /\ MetaContent(f.og).len > 0 THEN MetaContent(f.og)
    ELSE Slice(GetText(f), SCRAPE_MAX)

ScrapeResults == { scrape_post_text(f) : f \in FetchOutcomes }

(***************************************************************************)
(* Post Search: search_linkedin_posts (lines 42-66)                        *)
(***************************************************************************)
\* A link is the sequence of its parts, so that `"linkedin.com" in link`
\* is a search for a part.
LinkA  == << "https://www.", "linkedin.com", "/posts/a" >>
LinkB  == << "https://www.", "linkedin.com", "/posts/b" >>
LinkX  == << "https://", "example.com", "/x" >>
NoLink == << >>                                   \* item.get("link", "")

Contains(link, part) == \E k \in 1..Len(link) : link[k] = part

Hits ==
    { [link |-> LinkA,  title |-> Str("title a", 12), snippet |-> Str("snippet a", 40), date |-> "2 days ago"],
      [link |-> LinkB,  title |-> Str("title b", 12), snippet |-> EmptyStr,             date |-> ""],
      [link |-> LinkX,  title |-> Str("title x", 12), snippet |-> Str("snippet x", 40), date |-> ""],
      [link |-> NoLink, title |-> EmptyStr,           snippet |-> EmptyStr,             date |-> ""] }

HitLists == UNION { [1..n -> Hits] : n \in 0..MaxHits }

\* What the provider call can do: requests.get raises, r.json() raises on a
\* body that is not JSON, the provider answers with a JSON error object that
\* has no "organic_results", or it answers with results.
SearchOutcomes ==
    { [kind |-> k, items |-> << >>] : k \in {"network_error", "not_json", "error_json"} }
    \cup { [kind |-> "results", items |-> h] : h \in HitLists }

SearchRaises(o) == o.kind \in {"network_error", "not_json"}

NewPost(item) ==
    [url |-> item.link, title |-> item.title, snippet |-> item.snippet,
     date |-> item.date, ai_score |-> NoKey, reason |-> NoKey, key_match |-> NoKey]

\* data.get("organic_results", [])
OrganicResults(o) == IF o.kind = "results" THEN o.items ELSE << >>

RECURSIVE KeepLinkedIn(_)
KeepLinkedIn(items) ==
    IF items = << >> THEN << >>
    ELSE IF Contains(Head(items).link, "linkedin.com")
         THEN << NewPost(Head(items)) >> \o KeepLinkedIn(Tail(items))
         ELSE KeepLinkedIn(Tail(items))

\* the value returned when the call does not raise
search_linkedin_posts(o) == KeepLinkedIn(OrganicResults(o))

(***************************************************************************)
(* Relevance Scorer: ai_relevance_score (lines 69-105)                     *)
(***************************************************************************)
ScoreKeys == {"relevance_score", "reason", "key_match"}

Dict(d) == [kind |-> "dict", d |-> d]
Full(score) == Dict([relevance_score |-> score, reason |-> PyStr("r"), key_match |-> PyStr("k")])

\* JSON documents the model may answer with
JsonDocs ==
    { Full(PyInt(45)), Full(PyInt(80)), Full(PyInt(90)),   \* the asked-for shape
      Full(PyInt(150)),                                    \* score out of range
      Full(PyFloat(55)),                                   \* 55.5
      Full(PyNone),                                        \* "relevance_score": null
      Dict([score |-> PyInt(70)]),                         \* other keys
      [kind |-> "list",   d |-> [item |-> PyInt(90)]],     \* [90]
      [kind |-> "number", d |-> [item |-> PyInt(90)]] }    \* 90

NoDoc == [kind |-> "nodoc", d |-> [item |-> PyNone]]

\* a Markdown code fence, with or without the json language tag
Fence(lang) == [tok |-> IF lang THEN "fence_json" ELSE "fence", doc |-> NoDoc]
Prose       == [tok |-> "prose", doc |-> NoDoc]
Json(doc)   == [tok |-> "json", doc |-> doc]

\* resp.text, as a sequence of parts: code fences, prose, JSON documents
ResponseTexts ==
    { << >>, << Prose >> }
    \cup { << Json(j) >> : j \in JsonDocs }
    \cup { << Fence(TRUE), Json(j), Fence(FALSE) >> : j \in JsonDocs }
    \cup { << Fence(FALSE), Json(j), Fence(FALSE) >> : j \in JsonDocs }
    \cup { << Prose, Json(j) >> : j \in JsonDocs }
    \cup { << Json(j), Prose >> : j \in JsonDocs }
    \cup { << Fence(TRUE), Json(j), Fence(FALSE), Prose >> : j \in JsonDocs }

\* generate_content raises (network, quota, blocked answer) or answers
ModelResponses ==
    { [raises |-> TRUE, text |-> << >>] }
    \cup { [raises |-> FALSE, text |-> t] : t \in ResponseTexts }

IsFence(tk) == tk.tok \in {"fence_json", "fence"}
NotFence(tk) == ~IsFence(tk)

\* re.sub: every fence, with or without the language tag, is removed
StripFences(text) == SelectSeq(text, NotFence)

\* json.loads accepts exactly one document (surrounding whitespace aside)
JsonLoadsRaises(raw) == ~(Len(raw) = 1 /\ raw[1].tok = "json")
JsonLoads(raw) == raw[1].doc

DEGRADED ==
    Dict([relevance_score |-> PyInt(0), reason |-> PyStr("AI error"), key_match |-> PyStr("")])

ai_relevance_score(resp) ==
    IF resp.raises THEN DEGRADED
    ELSE IF JsonLoadsRaises(StripFences(resp.text)) THEN DEGRADED
    ELSE JsonLoads(StripFences(resp.text))

AiResults == { ai_relevance_score(m) : m \in ModelResponses }

\* dict.get(key, default)
Get(dict, key, default) == IF key \in DOMAIN dict THEN dict[key] ELSE default

(***************************************************************************)
(* Pipeline helpers (lines 145-234)                                        *)
(***************************************************************************)
Thresholds == {45, 81}        \* slider positions tried (range 0..100, line 120)
HIGH_INTENT == 80

\* the check with the phrase forgotten
ConfigMissingNoPhrase(skey, gkey, url, phrase) ==
    skey = "" \/ gkey = "" \/ url = ""

\* line 147
ConfigMissing(skey, gkey, url, phrase) ==
    skey = "" \/ gkey = "" \/ url = "" \/ phrase = ""

\* the fraction taken from i instead of i+1
ScoringProgressFromIndex(k, n) == 40 + ((k - 1) * 40) \div n

\* 40 + int((i+1)/len(raw_posts)*40), k = i+1   (line 182)
ScoringProgress(k, n) == 40 + (k * 40) \div n

\* > in place of >=
AtLeastStrict(score, bar) == Twice(score) > 2 * bar

\* score >= bar; defined for numbers only
AtLeast(score, bar) == Twice(score) >= 2 * bar

\* comparing None (or a str) with an int raises TypeError
ComparisonRaises(refs, posts) ==
    \E k \in 1..Len(refs) : ~IsNumber(posts[refs[k]].ai_score)

\* [p for p in scored_posts if p["ai_score"] >= bar]
RECURSIVE Filter(_, _, _)
Filter(refs, posts, bar) ==
    IF refs = << >> THEN << >>
    ELSE IF AtLeast(posts[Head(refs)].ai_score, bar)
         THEN << Head(refs) >> \o Filter(Tail(refs), posts, bar)
         ELSE Filter(Tail(refs), posts, bar)

Reverse(seq) == [k \in 1..Len(seq) |-> seq[Len(seq) + 1 - k]]

\* x goes behind every element whose key is not greater than its own
RECURSIVE InsertAsc(_, _, _)
InsertAsc(sorted, x, posts) ==
    IF sorted = << >> THEN << x >>
    ELSE IF Twice(posts[Head(sorted)].ai_score) > Twice(posts[x].ai_score)
         THEN << x >> \o sorted
         ELSE << Head(sorted) >> \o InsertAsc(Tail(sorted), x, posts)

RECURSIVE StableSortAsc(_, _)
StableSortAsc(refs, posts) ==
    IF refs = << >> THEN << >>
    ELSE InsertAsc(StableSortAsc(SubSeq(refs, 1, Len(refs) - 1), posts),
                   refs[Len(refs)], posts)

\* a descending sort that reverses once only, so that ties come out reversed
SortedDescTiesReversed(refs, posts) == Reverse(StableSortAsc(refs, posts))

\* sorted(refs, key=ai_score, reverse=True): the list is reversed, sorted
\* stably in ascending order, and reversed again   (line 214)
SortedDesc(refs, posts) == Reverse(StableSortAsc(Reverse(refs), posts))

\* the export offered whatever the list holds
OfferExportAlways(qualified) == TRUE

\* `if qualified_posts:`   (line 211)
OfferExport(qualified) == qualified # << >>

Call(op, arg) == [op |-> op, arg |-> arg]

NoUi == [error |-> FALSE, metrics |-> << >>, all_posts |-> << >>,
         qualified_leads |-> << >>, csv |-> << >>, download |-> FALSE,
         warning |-> FALSE]

NoFetch == [kind |-> "none", status |-> 0, og |-> NoOg, body |-> 0]
NoResponse == [raises |-> FALSE, text |-> << >>]

UnitIdle ==
    /\ fetch_in = NoFetch /\ scrape_out = EmptyStr
    /\ model_in = NoResponse /\ score_out = NoDoc

unit_vars == << fetch_in, scrape_out, model_in, score_out >>

(***************************************************************************)
(* The pipeline run                                                        *)
(***************************************************************************)
Init ==
    /\ pc = "start"                       \* the run button was pressed
    /\ serpapi_key \in {"", "serp-key"}
    /\ gemini_key \in {"", "gemini-key"}
    /\ example_url \in {"", "https://www.linkedin.com/posts/example"}
    /\ target_phrase \in {"", "CRM integration"}
    /\ ai_threshold \in Thresholds
    /\ progress = << >>
    /\ example_text = EmptyStr
    /\ raw_posts = << >>
    /\ scored_posts = << >>
    /\ qualified_posts = << >>
    /\ high_intent = << >>
    /\ ui = NoUi
    /\ calls = << >>
    /\ search_outcome = "none"
    /\ crash = ""
    /\ UnitIdle

\* lines 147-151
Validate ==
    /\ pc = "start"
    /\ IF ConfigMissing(serpapi_key, gemini_key, example_url, target_phrase)
       THEN /\ ui' = [ui EXCEPT !.error = TRUE]          \* st.error; st.stop()
            /\ pc' = "stopped"
            /\ UNCHANGED progress
       ELSE /\ progress' = << 0 >>
            /\ pc' = "scrape_example"
            /\ UNCHANGED ui
    /\ UNCHANGED << serpapi_key, gemini_key, ai_threshold, example_url,
                    target_phrase, example_text, raw_posts, scored_posts,
                    qualified_posts, high_intent, calls, search_outcome,
                    crash, unit_vars >>

\* lines 154-155
ScrapeExample ==
    /\ pc = "scrape_example"
    /\ \E f \in FetchOutcomes : example_text' = scrape_post_text(f)
    /\ calls' = Append(calls, Call("scrape", 0))
    /\ progress' = Append(progress, 20)
    /\ pc' = "search"
    /\ UNCHANGED << serpapi_key, gemini_key, ai_threshold, example_url,
                    target_phrase, raw_posts, scored_posts, qualified_posts,
                    high_intent, ui, search_outcome, crash, unit_vars >>

\* lines 158-162
Search ==
    /\ pc = "search"
    /\ calls' = Append(calls, Call("search", 0))
    /\ \E o \in SearchOutcomes :
          /\ search_outcome' = o.kind
          /\ IF SearchRaises(o)
             THEN /\ crash' = "search"                  \* uncaught exception
                  /\ pc' = "crashed"
                  /\ UNCHANGED << raw_posts, progress >>
             ELSE /\ raw_posts' = search_linkedin_posts(o)
                  /\ progress' = Append(progress, 40)
                  /\ pc' = "scoring"
                  /\ UNCHANGED crash
    /\ UNCHANGED << serpapi_key, gemini_key, ai_threshold, example_url,
                    target_phrase, example_text, scored_posts,
                    qualified_posts, high_intent, ui, unit_vars >>

\* one iteration of the loop, lines 164-183
ScoreCandidate ==
    /\ pc = "scoring"
    /\ Len(scored_posts) < Len(raw_posts)
    /\ LET k == Len(scored_posts) + 1
           post == raw_posts[k]
       IN /\ calls' = calls \o << Call("scrape", k), Call("score", k) >>
          /\ \E full_text \in ScrapeResults, ai_result \in AiResults :
                LET content == IF full_text.len > 0 THEN full_text
                               ELSE Concat(post.title, post.snippet)
                IN IF ai_result.kind # "dict"
                   THEN /\ crash' = "scoring"     \* no .get on a list or a number
                        /\ pc' = "crashed"
                        /\ UNCHANGED << raw_posts, scored_posts, progress >>
                   ELSE /\ raw_posts' = [raw_posts EXCEPT ![k] =
                               [post EXCEPT
                                  !.ai_score  = Get(ai_result.d, "relevance_score", PyInt(0)),
                                  !.reason    = Get(ai_result.d, "reason", PyStr("")),
                                  !.key_match = Get(ai_result.d, "key_match", PyStr(""))]]
                        /\ scored_posts' = Append(scored_posts, k)
                        /\ progress' = Append(progress, ScoringProgress(k, Len(raw_posts)))
                        /\ UNCHANGED << pc, crash >>
    /\ UNCHANGED << serpapi_key, gemini_key, ai_threshold, example_url,
                    target_phrase, example_text, qualified_posts,
                    high_intent, ui, search_outcome, unit_vars >>

\* the loop is exhausted, line 185
LoopDone ==
    /\ pc = "scoring"
    /\ Len(scored_posts) = Len(raw_posts)
    /\ progress' = Append(progress, 100)
    /\ pc' = "filtering"
    /\ UNCHANGED << serpapi_key, gemini_key, ai_threshold, example_url,
                    target_phrase, example_text, raw_posts, scored_posts,
                    qualified_posts, high_intent, ui, calls, search_outcome,
                    crash, unit_vars >>

\* lines 188-189
FilterPosts ==
    /\ pc = "filtering"
    /\ IF ComparisonRaises(scored_posts, raw_posts)
       THEN /\ crash' = "filtering"                     \* TypeError
            /\ pc' = "crashed"
            /\ UNCHANGED << qualified_posts, high_intent >>
       ELSE /\ qualified_posts' = Filter(scored_posts, raw_posts, ai_threshold)
            /\ high_intent' = Filter(scored_posts, raw_posts, HIGH_INTENT)
            /\ pc' = "results"
            /\ UNCHANGED crash
    /\ UNCHANGED << serpapi_key, gemini_key, ai_threshold, example_url,
                    target_phrase, progress, example_text, raw_posts,
                    scored_posts, ui, calls, search_outcome, unit_vars >>

\* lines 195-234
ShowResults ==
    /\ pc = "results"
    /\ ui' = [ui EXCEPT
                !.metrics = << Len(raw_posts), Len(qualified_posts), Len(high_intent) >>,
                !.all_posts = scored_posts,
                !.qualified_leads = IF OfferExport(qualified_posts)
                                    THEN SortedDesc(qualified_posts, raw_posts)
                                    ELSE << >>,
                !.csv = IF OfferExport(qualified_posts) THEN qualified_posts ELSE << >>,
                !.download = OfferExport(qualified_posts),
                !.warning = ~OfferExport(qualified_posts)]
    /\ pc' = "done"
    /\ UNCHANGED << serpapi_key, gemini_key, ai_threshold, example_url,
                    target_phrase, progress, example_text, raw_posts,
                    scored_posts, qualified_posts, high_intent, calls,
                    search_outcome, crash, unit_vars >>

Next ==
    \/ Validate
    \/ ScrapeExample
    \/ Search
    \/ ScoreCandidate
    \/ LoopDone
    \/ FilterPosts
    \/ ShowResults

Spec == Init /\ [][Next]_vars

(***************************************************************************)
(* scrape_post_text and ai_relevance_score on their own                    *)
(***************************************************************************)
PipelineIdle ==
    /\ serpapi_key = "" /\ gemini_key = "" /\ example_url = ""
    /\ target_phrase = "" /\ ai_threshold = 45
    /\ progress = << >> /\ example_text = EmptyStr /\ raw_posts = << >>
    /\ scored_posts = << >> /\ qualified_posts = << >> /\ high_intent = << >>
    /\ ui = NoUi /\ calls = << >> /\ search_outcome = "none" /\ crash = ""

InitScrape ==
    /\ pc = "scrape_call"
    /\ fetch_in \in FetchOutcomes
    /\ scrape_out = EmptyStr
    /\ model_in = NoResponse /\ score_out = NoDoc
    /\ PipelineIdle

ScrapeCall ==
    /\ pc = "scrape_call"
    /\ scrape_out' = scrape_post_text(fetch_in)
    /\ pc' = "scrape_returned"
    /\ UNCHANGED << pipeline_vars, fetch_in, model_in, score_out >>

NextScrape == ScrapeCall

SpecScrape == InitScrape /\ [][NextScrape]_vars

InitScorer ==
    /\ pc = "scorer_call"
    /\ model_in \in ModelResponses
    /\ score_out = NoDoc
    /\ fetch_in = NoFetch /\ scrape_out = EmptyStr
    /\ PipelineIdle

ScorerCall ==
    /\ pc = "scorer_call"
    /\ score_out' = ai_relevance_score(model_in)
    /\ pc' = "scorer_returned"
    /\ UNCHANGED << pipeline_vars, fetch_in, scrape_out, model_in >>

NextScorer == ScorerCall

SpecScorer == InitScorer /\ [][NextScorer]_vars

(***************************************************************************)
(* Properties                                                              *)
(***************************************************************************)
Range(seq) == { seq[k] : k \in 1..Len(seq) }
Score(k) == raw_posts[k].ai_score
Filtered == pc \in {"results", "done"}
ReachedFiltering == pc \in {"filtering", "results", "done"} \/ crash = "filtering"

\* the model answered with JSON of the asked-for shape
MatchesShape(doc) ==
    /\ doc.kind = "dict"
    /\ DOMAIN doc.d = ScoreKeys
    /\ doc.d.relevance_score.t = "int"
    /\ doc.d.relevance_score.n \in 0..100
    /\ doc.d.reason.t = "str"
    /\ doc.d.key_match.t = "str"

ScoringFailed(resp) ==
    \/ resp.raises
    \/ JsonLoadsRaises(StripFences(resp.text))
    \/ ~MatchesShape(JsonLoads(StripFences(resp.text)))

\* C1: whenever the scoring step fails (the model call raises, the answer is
\* not JSON, or the JSON does not have the {relevance_score, reason,
\* key_match} shape), ai_relevance_score returns exactly
\* {relevance_score: 0, reason: "AI error", key_match: ""}.
C1_DegradedOnEveryFailure ==
    (pc = "scorer_returned" /\ ScoringFailed(model_in)) => score_out = DEGRADED

\* C2: every candidate that reaches the filtering stage has an ai_score that
\* is present and is an integer in [0,100].
C2_ScoreIsIntIn0to100 ==
    ReachedFiltering =>
        \A k \in Range(scored_posts) : Score(k).t = "int" /\ Score(k).n \in 0..100

AnyFieldEmpty ==
    serpapi_key = "" \/ gemini_key = "" \/ example_url = "" \/ target_phrase = ""

\* C3: a run with any of the four required fields empty is rejected with a
\* validation error and makes no external call; a run with all four present
\* starts the pipeline.
C3_ValidationGate ==
    pc # "start" =>
        IF AnyFieldEmpty
        THEN pc = "stopped" /\ ui.error /\ calls = << >> /\ progress = << >>
        ELSE pc # "stopped" /\ ~ui.error /\ Len(progress) >= 1

C3_Witness ==
    /\ pc = "stopped" /\ ui.error
    /\ target_phrase = "" /\ serpapi_key # "" /\ gemini_key # "" /\ example_url # ""

\* C4: a search that fails at the provider or network level (the request
\* raises, or the provider answers with an error instead of an
\* organic-results list) halts the run as a hard error; it never continues
\* as an ordinary empty result list.
C4_SearchFailureHalts ==
    search_outcome \in {"network_error", "not_json", "error_json"}
        => (pc = "crashed" /\ crash = "search")

RECURSIVE CandidateCalls(_)
CandidateCalls(n) ==
    IF n = 0 THEN << >>
    ELSE CandidateCalls(n - 1) \o << Call("scrape", n), Call("score", n) >>

\* C5: whatever the per-candidate scrape and scoring outcomes, the batch is
\* never aborted by one candidate, and the run reaches the filtering stage
\* with exactly one scrape and one scoring attempt per candidate, in
\* search-result order, and a scored list of all n candidates in that order.
C5_OneAttemptEachNoAbort ==
    /\ crash # "scoring"
    /\ ReachedFiltering =>
          /\ scored_posts = [k \in 1..Len(raw_posts) |-> k]
          /\ calls = << Call("scrape", 0), Call("search", 0) >>
                        \o CandidateCalls(Len(raw_posts))

\* C6: after filtering, qualified is exactly the candidates scoring at least
\* the threshold and high-intent exactly those scoring at least 80; with a
\* threshold of at most 80 high-intent is a subset of qualified, with a
\* threshold above 80 every qualified candidate is high-intent.
C6_FilterSets ==
    Filtered =>
        /\ Range(qualified_posts) =
              { k \in Range(scored_posts) : Twice(Score(k)) >= 2 * ai_threshold }
        /\ Range(high_intent) =
              { k \in Range(scored_posts) : Twice(Score(k)) >= 160 }
        /\ ai_threshold <= 80 => Range(high_intent) \subseteq Range(qualified_posts)
        /\ ai_threshold > 80 => Range(qualified_posts) \subseteq Range(high_intent)

C6_Witness ==
    /\ pc = "done" /\ ai_threshold > 80
    /\ qualified_posts # << >>
    /\ Len(high_intent) > Len(qualified_posts)
    /\ \E k \in Range(scored_posts) : Score(k) = PyInt(80)

\* C7: the displayed qualified list is a permutation of the qualified set,
\* in descending ai_score order, and posts of equal score keep their
\* discovery order.
C7_SortedDescStable ==
    (pc = "done" /\ qualified_posts # << >>) =>
        LET shown == ui.qualified_leads IN
        /\ Len(shown) = Len(qualified_posts)
        /\ Range(shown) = Range(qualified_posts)
        /\ \A a, b \in 1..Len(shown) :
              a < b => /\ Twice(Score(shown[a])) >= Twice(Score(shown[b]))
                       /\ Twice(Score(shown[a])) = Twice(Score(shown[b]))
                             => shown[a] < shown[b]

C7_Witness ==
    /\ pc = "done"
    /\ ui.qualified_leads # qualified_posts
    /\ \E a, b \in Range(qualified_posts) : a # b /\ Score(a) = Score(b)

\* C8: scrape_post_text returns the empty string for a network error, a
\* timeout, a parse error, a non-HTML response and a page with neither
\* og:description content nor text; otherwise the og:description content
\* when there is some, else the page text cut to at most 3000 characters.
C8_ScrapeContract ==
    pc = "scrape_returned" =>
        IF \/ fetch_in.kind \in {"network_error", "timeout", "parse_error", "non_html"}
           \/ (~(fetch_in.og.content /\ fetch_in.og.len > 0) /\ fetch_in.body = 0)
        THEN scrape_out = EmptyStr
        ELSE IF fetch_in.og.content /\ fetch_in.og.len > 0
             THEN scrape_out = Str("og", fetch_in.og.len)
             ELSE scrape_out = Str("body", Min(fetch_in.body, 3000))

\* C9: in a run that passes validation and whose search succeeds, the
\* progress values never decrease: 0 at the start, 20 after the reference
\* scrape, 40 after the search, 40 + floor(40k/n) in [40,80] after the k-th
\* of n candidates (80 after the last), 100 once the loop is over.
C9_ProgressMonotone ==
    LET n == Len(raw_posts) IN
    /\ \A a, b \in 1..Len(progress) : a < b => progress[a] <= progress[b]
    /\ pc \notin {"start", "stopped"} => progress[1] = 0
    /\ pc \notin {"start", "stopped", "scrape_example"} => progress[2] = 20
    /\ search_outcome \in {"results", "error_json"} =>
          /\ progress[3] = 40
          /\ \A k \in 1..Len(scored_posts) :
                /\ progress[3 + k] \in 40..80
                /\ n * (progress[3 + k] - 40) <= 40 * k
                /\ 40 * k < n * (progress[3 + k] - 40 + 1)
                /\ k = n => progress[3 + k] = 80
          /\ ReachedFiltering => /\ Len(progress) = n + 4
                                  /\ progress[n + 4] = 100
          /\ ~ReachedFiltering => Len(progress) = 3 + Len(scored_posts)

C9_Witness ==
    /\ pc = "done"
    /\ progress = << 0, 20, 40, 53, 66, 80, 100 >>

\* C10: when the search returns zero candidates the run does not fail: no
\* candidate is scraped or scored, found is 0, qualified and high-intent
\* are empty, no export is offered and the lower-threshold warning is shown.
C10_ZeroCandidates ==
    (search_outcome \in {"results", "error_json"} /\ raw_posts = << >>) =>
        /\ crash = "" /\ pc \in {"scoring", "filtering", "results", "done"}
        /\ calls = << Call("scrape", 0), Call("search", 0) >>
        /\ scored_posts = << >>
        /\ qualified_posts = << >> /\ high_intent = << >>
        /\ ~ui.download /\ ui.csv = << >> /\ ui.qualified_leads = << >>
        /\ pc = "done" => (ui.metrics = << 0, 0, 0 >> /\ ui.warning)
        /\ pc # "done" => ~ui.warning

C10_Witness ==
    /\ pc = "done" /\ search_outcome = "results" /\ raw_posts = << >>
    /\ ui.metrics = << 0, 0, 0 >> /\ ui.warning

====
